---- MODULE Spec2Model ----
(***************************************************************************)
(* Blogicum: the visibility and ownership behaviour of the request         *)
(* handlers of blog/views.py, with the forms of blog/forms.py and the      *)
(* list-editable columns of blog/admin.py.                                 *)
(*                                                                         *)
(* One step of the model is one HTTP request handled to completion (or one *)
(* administrative edit, one tick of the clock, one start of the serving    *)
(* process).  resp is the response of the request handled by the latest    *)
(* step; a step that is not a request of the blog application leaves the   *)
(* idle value or the admin's record there.  A listing is the whole object  *)
(* list of the ListView (all pages); its order is not modelled.  Of a post *)
(* the model keeps the fields the handlers decide on (author,              *)
(* is_published, pub_date, category); title, text, location and image take *)
(* part in no decision.                                                    *)
(***************************************************************************)
EXTENDS Integers, FiniteSets, Sequences, TLC

\* Bounds of the model.
MaxPosts == 2
MaxComments == 1
MaxTime == 1

Users == {"alice", "bob"}
Anonymous == "anonymous"
Requesters == Users \cup {Anonymous}
Categories == {"travel"}
NoCategory == "no_category"
CategoryRefs == Categories \cup {NoCategory}
Texts == {"a", "b"}
EmptyText == ""
PostIds == 1 .. MaxPosts
CommentIds == 1 .. MaxComments
Times == 0 .. MaxTime
Methods == {"GET", "POST"}
NoId == 0
NoName == "-"

VARIABLES
    clock,          \* django.utils.timezone.now()
    startTime,      \* now() as evaluated when blog/views.py was imported
    category,       \* Category rows: slug -> [is_published]
    posts,          \* Post rows: id -> [author, is_published, pub_date, category]
    comments,       \* Comment rows: id -> [author, post, text]
    nextPostId,     \* the Post table's auto-increment
    nextCommentId,  \* the Comment table's auto-increment
    resp            \* the request handled by the latest step and its response

vars == <<clock, startTime, category, posts, comments, nextPostId, nextCommentId, resp>>
db == <<category, posts, comments, nextPostId, nextCommentId>>

----------------------------------------------------------------------------
\* Requests and responses.  valid says that the handler bound the submitted
\* form and the form validated.

NoLocation == [name |-> NoName, post_id |-> NoId, username |-> NoName]
LoginLocation == [name |-> "login", post_id |-> NoId, username |-> NoName]
PostDetailLocation(post_id) == [name |-> "blog:post_detail", post_id |-> post_id, username |-> NoName]
ProfileLocation(username) == [name |-> "blog:profile", post_id |-> NoId, username |-> username]

Request(view, method, user, post_id, comment_id, name, valid) ==
    [view |-> view, method |-> method, user |-> user, post_id |-> post_id,
     comment_id |-> comment_id, name |-> name, valid |-> valid]

Response(req, status, location, listing, object) ==
    [view |-> req.view, method |-> req.method, user |-> req.user,
     post_id |-> req.post_id, comment_id |-> req.comment_id, name |-> req.name,
     valid |-> req.valid,
     status |-> status, location |-> location, listing |-> listing, object |-> object]

Rendered(req, listing, object) == Response(req, "ok", NoLocation, listing, object)
Http404(req) == Response(req, "not_found", NoLocation, {}, NoId)
ServerError(req) == Response(req, "server_error", NoLocation, {}, NoId)
HttpResponseRedirect(req, location) == Response(req, "redirect", location, {}, NoId)

Idle == Rendered(Request("-", "-", Anonymous, NoId, NoId, NoName, FALSE), {}, NoId)

is_authenticated(user) == user \in Users

----------------------------------------------------------------------------
\* Querysets.

\* get_post_queryset(apply_filters): `now` is the value now() had when the
\* filter was built.  category__is_published=True joins the category, so a
\* post without a category never matches.
get_post_queryset(apply_filters, now) ==
    {id \in DOMAIN posts :
        apply_filters =>
            /\ posts[id].is_published
            /\ posts[id].pub_date <= now
            /\ posts[id].category # NoCategory
            /\ category[posts[id].category].is_published}

\* The condition of PostDetailView.get_object, evaluated left to right:
\* "hidden" raises Http404, "shown" returns the post, "error" is the
\* AttributeError of post.category.is_published on a post without category.
get_object_check(post, user, now) ==
    IF post.author = user THEN "shown"
    ELSE IF ~post.is_published THEN "hidden"
    ELSE IF post.category = NoCategory THEN "error"
    ELSE IF ~category[post.category].is_published THEN "hidden"
    ELSE IF post.pub_date > now THEN "hidden"
    ELSE "shown"

----------------------------------------------------------------------------
Init ==
    /\ clock = 0
    /\ startTime = 0
    /\ category = [c \in Categories |-> [is_published |-> TRUE]]
    /\ posts = <<>>
    /\ comments = <<>>
    /\ nextPostId = 1
    /\ nextCommentId = 1
    /\ resp = Idle

\* Time passes.
Tick ==
    /\ clock < MaxTime
    /\ clock' = clock + 1
    /\ resp' = Idle
    /\ UNCHANGED <<startTime, db>>

\* The serving process starts: blog/views.py is imported and the class body
\* of PostListView builds its queryset, calling now() once.
ProcessStart ==
    /\ startTime # clock
    /\ startTime' = clock
    /\ resp' = Idle
    /\ UNCHANGED <<clock, db>>

----------------------------------------------------------------------------
\* Read handlers.

PostListView(user) ==
    LET req == Request("blog:index", "GET", user, NoId, NoId, NoName, FALSE) IN
    /\ resp' = Rendered(req, get_post_queryset(TRUE, startTime), NoId)
    /\ UNCHANGED <<clock, startTime, db>>

PostDetailView(user, post_id) ==
    LET req == Request("blog:post_detail", "GET", user, post_id, NoId, NoName, FALSE)
        check == get_object_check(posts[post_id], user, clock)
    IN
    /\ resp' = IF post_id \notin DOMAIN posts THEN Http404(req)
               ELSE IF check = "hidden" THEN Http404(req)
               ELSE IF check = "error" THEN ServerError(req)
               ELSE Rendered(req, {}, post_id)
    /\ UNCHANGED <<clock, startTime, db>>

CategoryPostListView(user, category_slug) ==
    LET req == Request("blog:category_posts", "GET", user, NoId, NoId, category_slug, FALSE) IN
    /\ resp' = IF category_slug \in Categories /\ category[category_slug].is_published
               THEN Rendered(req,
                        {id \in get_post_queryset(TRUE, clock) :
                            posts[id].category = category_slug},
                        NoId)
               ELSE Http404(req)
    /\ UNCHANGED <<clock, startTime, db>>

ProfileView(user, username) ==
    LET req == Request("blog:profile", "GET", user, NoId, NoId, username, FALSE)
        queryset == IF user = username
                    THEN get_post_queryset(FALSE, clock)
                    ELSE get_post_queryset(TRUE, clock)
    IN
    /\ resp' = IF username \in Users
               THEN Rendered(req, {id \in queryset : posts[id].author = username}, NoId)
               ELSE Http404(req)
    /\ UNCHANGED <<clock, startTime, db>>

----------------------------------------------------------------------------
\* Forms.

\* What a submitted post form carries.  PostForm.Meta.fields has no author.
PostData == [pub_date : Times, category : CategoryRefs, is_published : BOOLEAN]

\* PostForm.__init__ narrows the category choices to the published
\* categories; the category itself is optional (Post.category is nullable).
PostForm_is_valid(data) ==
    data.category = NoCategory \/ category[data.category].is_published

\* What a submitted comment form carries: the text, and whatever author and
\* post values the client chose to add.
CommentData == [text : Texts \cup {EmptyText}, author : Users, post : PostIds]

\* CommentForm(data, instance=...): Meta.fields = ['text'], so the bound form
\* copies the text into the instance and nothing else.
CommentForm(data, instance) ==
    [data |-> data, instance |-> [instance EXCEPT !.text = data.text]]

NewComment == [author |-> NoName, post |-> NoId, text |-> EmptyText]

\* text is a required field.
CommentForm_is_valid(form) == form.data.text # EmptyText

\* CommentForm.save: self.post is the 'post' keyword of the form, which no
\* view passes (None).
CommentForm_save(instance, self_post) ==
    IF self_post # NoId THEN [instance EXCEPT !.post = self_post] ELSE instance

----------------------------------------------------------------------------
\* Dispatch.

\* LoginRequiredMixin.dispatch
LoginRequiredMixin_dispatch(user) ==
    IF is_authenticated(user) THEN "super" ELSE "login"

\* PostUpdateView.dispatch without the comparison of post.author with
\* request.user.
PostUpdateView_dispatch_unchecked(user, post_id) ==
    IF post_id \notin DOMAIN posts THEN "404"
    ELSE LoginRequiredMixin_dispatch(user)

\* PostUpdateView.dispatch, which runs before LoginRequiredMixin.dispatch.
PostUpdateView_dispatch(user, post_id) ==
    IF post_id \notin DOMAIN posts THEN "404"
    ELSE IF posts[post_id].author # user THEN "redirect"
    ELSE LoginRequiredMixin_dispatch(user)

\* PostDeleteView.dispatch
PostDeleteView_dispatch(user, post_id) ==
    IF post_id \notin DOMAIN posts THEN "404"
    ELSE IF posts[post_id].author # user THEN "redirect"
    ELSE LoginRequiredMixin_dispatch(user)

\* get_object looking the comment up by its id alone, among the comments
\* of every post.
Comment_get_object_any_post(post_id, comment_id) ==
    IF comment_id \in DOMAIN comments THEN comment_id ELSE NoId

\* CommentUpdateView.get_object / CommentDeleteView.get_object: the comment
\* is looked up among the comments of the post named in the path.
Comment_get_object(post_id, comment_id) ==
    IF comment_id \in DOMAIN comments /\ comments[comment_id].post = post_id
    THEN comment_id
    ELSE NoId

\* CommentUpdateView.dispatch without the comparison of comment.author with
\* request.user.
CommentUpdateView_dispatch_unchecked(user, post_id, comment_id) ==
    IF Comment_get_object(post_id, comment_id) = NoId THEN "404"
    ELSE LoginRequiredMixin_dispatch(user)

\* CommentUpdateView.dispatch
CommentUpdateView_dispatch(user, post_id, comment_id) ==
    IF Comment_get_object(post_id, comment_id) = NoId THEN "404"
    ELSE IF comments[comment_id].author # user THEN "redirect"
    ELSE LoginRequiredMixin_dispatch(user)

\* CommentDeleteView.dispatch
CommentDeleteView_dispatch(user, post_id, comment_id) ==
    IF Comment_get_object(post_id, comment_id) = NoId THEN "404"
    ELSE IF comments[comment_id].author # user THEN "redirect"
    ELSE LoginRequiredMixin_dispatch(user)

\* PostCreateView.form_valid
PostCreateView_form_valid(data, user) ==
    [author |-> user, is_published |-> data.is_published,
     pub_date |-> data.pub_date, category |-> data.category]

\* UpdateView.form_valid of PostUpdateView: the form's fields are saved.
PostUpdateView_form_valid(post, data) ==
    [post EXCEPT !.is_published = data.is_published,
                 !.pub_date = data.pub_date,
                 !.category = data.category]

\* CommentCreateView.form_valid taking the author and the post from the
\* submitted data instead of the request.
CommentCreateView_form_valid_trusting(form, user, post_id) ==
    [form.instance EXCEPT !.post = form.data.post, !.author = form.data.author]

\* CommentCreateView.form_valid
CommentCreateView_form_valid(form, user, post_id) ==
    [form.instance EXCEPT !.post = post_id, !.author = user]

\* CommentUpdateView.form_valid
CommentUpdateView_form_valid(form, user, post_id) ==
    [form.instance EXCEPT !.post = post_id, !.author = user]

\* Deleting a post deletes its comments (Comment.post cascades).
CascadeDelete(post_id) ==
    [id \in {c \in DOMAIN comments : comments[c].post # post_id} |-> comments[id]]

----------------------------------------------------------------------------
\* Write handlers.

PostCreateView(user, method, data) ==
    LET valid == /\ LoginRequiredMixin_dispatch(user) = "super"
                 /\ method = "POST"
                 /\ PostForm_is_valid(data)
        req == Request("blog:create_post", method, user, NoId, NoId, NoName, valid)
    IN
    IF LoginRequiredMixin_dispatch(user) = "login"
    THEN /\ resp' = HttpResponseRedirect(req, LoginLocation)
         /\ UNCHANGED <<clock, startTime, db>>
    ELSE IF ~valid
    THEN /\ resp' = Rendered(req, {}, NoId)
         /\ UNCHANGED <<clock, startTime, db>>
    ELSE /\ nextPostId <= MaxPosts
         /\ posts' = (nextPostId :> PostCreateView_form_valid(data, user)) @@ posts
         /\ nextPostId' = nextPostId + 1
         /\ resp' = HttpResponseRedirect(req, ProfileLocation(user))
         /\ UNCHANGED <<clock, startTime, category, comments, nextCommentId>>

PostUpdateView(user, method, post_id, data) ==
    LET d == PostUpdateView_dispatch(user, post_id)
        valid == d = "super" /\ method = "POST" /\ PostForm_is_valid(data)
        req == Request("blog:edit_post", method, user, post_id, NoId, NoName, valid)
    IN
    IF d # "super" \/ ~valid
    THEN /\ resp' = CASE d = "404" -> Http404(req)
                      [] d = "redirect" -> HttpResponseRedirect(req, PostDetailLocation(post_id))
                      [] d = "login" -> HttpResponseRedirect(req, LoginLocation)
                      [] OTHER -> Rendered(req, {}, post_id)
         /\ UNCHANGED <<clock, startTime, db>>
    ELSE /\ posts' = [posts EXCEPT ![post_id] = PostUpdateView_form_valid(@, data)]
         /\ resp' = HttpResponseRedirect(req, PostDetailLocation(post_id))
         /\ UNCHANGED <<clock, startTime, category, comments, nextPostId, nextCommentId>>

PostDeleteView(user, method, post_id) ==
    LET req == Request("blog:delete_post", method, user, post_id, NoId, NoName, FALSE)
        d == PostDeleteView_dispatch(user, post_id)
    IN
    IF d # "super" \/ method = "GET"
    THEN /\ resp' = CASE d = "404" -> Http404(req)
                      [] d = "redirect" -> HttpResponseRedirect(req, PostDetailLocation(post_id))
                      [] d = "login" -> HttpResponseRedirect(req, LoginLocation)
                      [] OTHER -> Rendered(req, {}, post_id)
         /\ UNCHANGED <<clock, startTime, db>>
    ELSE /\ posts' = [id \in DOMAIN posts \ {post_id} |-> posts[id]]
         /\ comments' = CascadeDelete(post_id)
         /\ resp' = HttpResponseRedirect(req, ProfileLocation(user))
         /\ UNCHANGED <<clock, startTime, category, nextPostId, nextCommentId>>

CommentCreateView(user, method, post_id, data) ==
    LET form == CommentForm(data, NewComment)
        valid == /\ LoginRequiredMixin_dispatch(user) = "super"
                 /\ method = "POST"
                 /\ CommentForm_is_valid(form)
        req == Request("blog:add_comment", method, user, post_id, NoId, NoName, valid)
    IN
    IF LoginRequiredMixin_dispatch(user) = "login"
    THEN /\ resp' = HttpResponseRedirect(req, LoginLocation)
         /\ UNCHANGED <<clock, startTime, db>>
    ELSE IF ~valid
    THEN /\ resp' = Rendered(req, {}, NoId)
         /\ UNCHANGED <<clock, startTime, db>>
    ELSE IF post_id \notin DOMAIN posts
    THEN /\ resp' = Http404(req)
         /\ UNCHANGED <<clock, startTime, db>>
    ELSE /\ nextCommentId <= MaxComments
         /\ comments' = (nextCommentId :>
                            CommentForm_save(
                                CommentCreateView_form_valid(form, user, post_id),
                                NoId)) @@ comments
         /\ nextCommentId' = nextCommentId + 1
         /\ resp' = HttpResponseRedirect(req, PostDetailLocation(post_id))
         /\ UNCHANGED <<clock, startTime, category, posts, nextPostId>>

CommentUpdateView(user, method, post_id, comment_id, data) ==
    LET d == CommentUpdateView_dispatch(user, post_id, comment_id)
        form == CommentForm(data, comments[comment_id])
        valid == d = "super" /\ method = "POST" /\ CommentForm_is_valid(form)
        req == Request("blog:edit_comment", method, user, post_id, comment_id, NoName, valid)
    IN
    IF d # "super" \/ ~valid
    THEN /\ resp' = CASE d = "404" -> Http404(req)
                      [] d = "redirect" -> HttpResponseRedirect(req, PostDetailLocation(post_id))
                      [] d = "login" -> HttpResponseRedirect(req, LoginLocation)
                      [] OTHER -> Rendered(req, {}, comment_id)
         /\ UNCHANGED <<clock, startTime, db>>
    ELSE IF post_id \notin DOMAIN posts
    THEN /\ resp' = Http404(req)
         /\ UNCHANGED <<clock, startTime, db>>
    ELSE /\ comments' = [comments EXCEPT ![comment_id] =
                            CommentForm_save(
                                CommentUpdateView_form_valid(form, user, post_id),
                                NoId)]
         /\ resp' = HttpResponseRedirect(req, PostDetailLocation(post_id))
         /\ UNCHANGED <<clock, startTime, category, posts, nextPostId, nextCommentId>>

CommentDeleteView(user, method, post_id, comment_id) ==
    LET req == Request("blog:delete_comment", method, user, post_id, comment_id, NoName, FALSE)
        d == CommentDeleteView_dispatch(user, post_id, comment_id)
    IN
    IF d # "super" \/ method = "GET"
    THEN /\ resp' = CASE d = "404" -> Http404(req)
                      [] d = "redirect" -> HttpResponseRedirect(req, PostDetailLocation(post_id))
                      [] d = "login" -> HttpResponseRedirect(req, LoginLocation)
                      [] OTHER -> Rendered(req, {}, comment_id)
         /\ UNCHANGED <<clock, startTime, db>>
    ELSE /\ comments' = [id \in DOMAIN comments \ {comment_id} |-> comments[id]]
         /\ resp' = HttpResponseRedirect(req, PostDetailLocation(post_id))
         /\ UNCHANGED <<clock, startTime, category, posts, nextPostId, nextCommentId>>

----------------------------------------------------------------------------
\* The admin site: the list_editable columns.

Admin == "admin"

\* CategoryAdmin.list_editable = ('is_published',): the flag is switched.
CategoryAdmin(slug, is_published) ==
    LET req == Request("admin:category", "POST", Admin, NoId, NoId, slug, TRUE) IN
    /\ category[slug].is_published # is_published
    /\ category' = [category EXCEPT ![slug].is_published = is_published]
    /\ resp' = Rendered(req, {}, NoId)
    /\ UNCHANGED <<clock, startTime, posts, comments, nextPostId, nextCommentId>>

\* PostAdmin.list_editable = ('is_published', 'category')
PostAdmin(post_id, is_published, cat) ==
    /\ post_id \in DOMAIN posts
    /\ posts' = [posts EXCEPT ![post_id].is_published = is_published,
                              ![post_id].category = cat]
    /\ resp' = Idle
    /\ UNCHANGED <<clock, startTime, category, comments, nextPostId, nextCommentId>>

\* The handler's return value is sent and the server takes the next request.
Respond ==
    /\ resp # Idle
    /\ resp' = Idle
    /\ UNCHANGED <<clock, startTime, db>>

\* Requests are handled one at a time; between two requests the clock may
\* advance, the process may be restarted and the admin may edit rows.  The
\* record of a category switch stays in resp until the next step.
Ready == resp = Idle \/ resp.view = "admin:category"

\* A GET carries no form data.
NoPostData == [pub_date |-> 0, category |-> NoCategory, is_published |-> FALSE]
NoCommentData == [text |-> EmptyText, author |-> "alice", post |-> 1]
PostSubmissions == {<<"GET", NoPostData>>} \cup {<<"POST", d>> : d \in PostData}
CommentSubmissions == {<<"GET", NoCommentData>>} \cup {<<"POST", d>> : d \in CommentData}

Next ==
    \/ Respond
    \/ Ready /\ Tick
    \/ Ready /\ ProcessStart
    \/ Ready /\ \E user \in Requesters : PostListView(user)
    \/ Ready /\ \E user \in Requesters, post_id \in PostIds : PostDetailView(user, post_id)
    \/ Ready /\ \E user \in Requesters, slug \in Categories : CategoryPostListView(user, slug)
    \/ Ready /\ \E user \in Requesters, username \in Users : ProfileView(user, username)
    \/ Ready /\ \E user \in Requesters, sub \in PostSubmissions :
            PostCreateView(user, sub[1], sub[2])
    \/ Ready /\ \E user \in Requesters, post_id \in PostIds, sub \in PostSubmissions :
            PostUpdateView(user, sub[1], post_id, sub[2])
    \/ Ready /\ \E user \in Requesters, method \in Methods, post_id \in PostIds :
            PostDeleteView(user, method, post_id)
    \/ Ready /\ \E user \in Requesters, post_id \in PostIds, sub \in CommentSubmissions :
            CommentCreateView(user, sub[1], post_id, sub[2])
    \/ Ready /\ \E user \in Requesters, post_id \in PostIds, comment_id \in CommentIds,
                  sub \in CommentSubmissions :
            CommentUpdateView(user, sub[1], post_id, comment_id, sub[2])
    \/ Ready /\ \E user \in Requesters, method \in Methods, post_id \in PostIds,
                  comment_id \in CommentIds :
            CommentDeleteView(user, method, post_id, comment_id)
    \/ Ready /\ \E slug \in Categories, is_published \in BOOLEAN :
            CategoryAdmin(slug, is_published)
    \/ Ready /\ \E post_id \in PostIds, is_published \in BOOLEAN, cat \in CategoryRefs :
            PostAdmin(post_id, is_published, cat)

Spec == Init /\ [][Next]_vars
----------------------------------------------------------------------------
\* The policy of the specification (section 4.1), which the claims compare
\* the handlers with.

isPubliclyVisible(post, now) ==
    /\ post.is_published
    /\ post.category = NoCategory \/ category[post.category].is_published
    /\ post.pub_date <= now

canView(requester, post, now) ==
    \/ isPubliclyVisible(post, now)
    \/ is_authenticated(requester) /\ requester = post.author

PostMutationViews == {"blog:edit_post", "blog:delete_post"}
CommentMutationViews == {"blog:edit_comment", "blog:delete_comment"}
WriteViews ==
    PostMutationViews \cup CommentMutationViews \cup {"blog:create_post", "blog:add_comment"}
RedirectedToDetail(r) ==
    r.status = "redirect" /\ r.location = PostDetailLocation(r.post_id)

----------------------------------------------------------------------------
\* C1: the visibility test of the code agrees with isPubliclyVisible for
\* every post and every time: the listing filter of
\* get_post_queryset(apply_filters=True) keeps a post, and the non-owner
\* check of PostDetailView.get_object lets it through, iff the post is
\* published, its category is absent or published, and pub_date <= now.
C1_VisibilityTestAgrees ==
    \A id \in DOMAIN posts, now \in Times :
        /\ (id \in get_post_queryset(TRUE, now)) <=> isPubliclyVisible(posts[id], now)
        /\ \A user \in Requesters \ {posts[id].author} :
               (get_object_check(posts[id], user, now) = "shown")
                   <=> isPubliclyVisible(posts[id], now)

\* C2: the listing of a home-feed request made at time t holds exactly the
\* posts that are published, in a published category and with
\* pub_date <= t, whoever asks and whenever the process started.
C2_HomeFeedFollowsClock ==
    resp.view = "blog:index" =>
        resp.listing =
            {id \in DOMAIN posts :
                /\ posts[id].is_published
                /\ posts[id].category \in Categories
                /\ category[posts[id].category].is_published
                /\ posts[id].pub_date <= clock}

\* C3: a detail request for an existing post returns the post iff
\* canView(requester, post, now) and is answered not-found otherwise.
C3_DetailFollowsCanView ==
    (resp.view = "blog:post_detail" /\ resp.post_id \in DOMAIN posts) =>
        IF canView(resp.user, posts[resp.post_id], clock)
        THEN resp.status = "ok" /\ resp.object = resp.post_id
        ELSE resp.status = "not_found"

\* C4: the profile feed of U lists all of U's posts when U asks, and exactly
\* U's publicly visible posts when anyone else asks.
C4_ProfileFeed ==
    resp.view = "blog:profile" =>
        resp.listing =
            {id \in DOMAIN posts :
                /\ posts[id].author = resp.name
                /\ resp.user = resp.name \/ isPubliclyVisible(posts[id], clock)}

\* The request answered by r was sent by an authenticated user who is not
\* the author of the existing post (edit_post, delete_post) or of the
\* existing comment (edit_comment, delete_comment) it names; under_its_post
\* asks in addition that the path names the post the comment belongs to.
NonAuthorMutation(r, under_its_post) ==
    /\ r.user \in Users
    /\ \/ /\ r.view \in PostMutationViews
          /\ r.post_id \in DOMAIN posts
          /\ posts[r.post_id].author # r.user
       \/ /\ r.view \in CommentMutationViews
          /\ r.comment_id \in DOMAIN comments
          /\ comments[r.comment_id].author # r.user
          /\ under_its_post => comments[r.comment_id].post = r.post_id

\* C5 as stated: an edit or delete request (GET or POST) by an authenticated
\* non-author for an existing post or an existing comment changes no stored
\* post or comment and is redirected to the detail view of the post named
\* in the path.
C5_NonAuthorRefused_AnyPath ==
    [][NonAuthorMutation(resp', FALSE) =>
          /\ posts' = posts
          /\ comments' = comments
          /\ RedirectedToDetail(resp')]_vars

\* C5 as amended: the same, for an existing post, or an existing comment
\* addressed under the post it belongs to.
C5_NonAuthorRefused ==
    [][NonAuthorMutation(resp', TRUE) =>
          /\ posts' = posts
          /\ comments' = comments
          /\ RedirectedToDetail(resp')]_vars

\* A non-author's POST to the edit form of an existing comment, under the
\* comment's own post, has been answered with the redirect.
C5_Witness ==
    /\ resp.view = "blog:edit_comment"
    /\ resp.method = "POST"
    /\ NonAuthorMutation(resp, TRUE)
    /\ RedirectedToDetail(resp)

\* The post or comment that the request answered by r is to edit or delete
\* exists (a create request names none).
TargetExists(r) ==
    /\ r.view \in PostMutationViews => r.post_id \in DOMAIN posts
    /\ r.view \in CommentMutationViews =>
           r.comment_id \in DOMAIN comments /\ comments[r.comment_id].post = r.post_id

\* C6: every create, edit or delete request for a post or a comment by an
\* unauthenticated requester is redirected to the login flow and changes no
\* stored data (stated for the requests whose post or comment exists).
C6_AnonymousGoesToLogin ==
    [][(resp'.user = Anonymous /\ resp'.view \in WriteViews /\ TargetExists(resp')) =>
          /\ resp'.status = "redirect"
          /\ resp'.location = LoginLocation
          /\ UNCHANGED db]_vars

\* comments' is comments with exactly one new row, of this author and post.
OneCommentStored(author, post_id) ==
    \E id \in DOMAIN comments' \ DOMAIN comments :
        /\ DOMAIN comments' = DOMAIN comments \cup {id}
        /\ \A c \in DOMAIN comments : comments'[c] = comments[c]
        /\ comments'[id].author = author
        /\ comments'[id].post = post_id

C8_OwnershipImmutable ==
    [][/\ \A id \in DOMAIN posts \cap DOMAIN posts' :
              posts'[id].author = posts[id].author
       /\ \A id \in DOMAIN posts' \ DOMAIN posts :
              resp'.view = "blog:create_post" /\ posts'[id].author = resp'.user
       /\ \A id \in DOMAIN comments \cap DOMAIN comments' :
              comments'[id].author = comments[id].author
       /\ \A id \in DOMAIN comments' \ DOMAIN comments :
              resp'.view = "blog:add_comment" /\ comments'[id].author = resp'.user]_vars

\* The author of a comment has edited it.
C8_Witness ==
    /\ resp.view = "blog:edit_comment"
    /\ resp.method = "POST"
    /\ resp.valid
    /\ RedirectedToDetail(resp)
    /\ resp.comment_id \in DOMAIN comments
    /\ comments[resp.comment_id].author = resp.user

\* What a read response r owes to category c as of the state it was built in.
CategoryGate(r, c) ==
    LET referencing == {id \in DOMAIN posts' : posts'[id].category = c}
        past == {id \in referencing :
                    posts'[id].is_published /\ posts'[id].pub_date <= clock'}
    IN
    IF ~category'[c].is_published
    THEN /\ r.view = "blog:index" => r.listing \cap referencing = {}
         /\ (r.view = "blog:category_posts" /\ r.name = c) => r.status = "not_found"
         /\ (r.view = "blog:profile" /\ r.user # r.name) =>
                r.listing \cap referencing = {}
         /\ (r.view = "blog:post_detail" /\ r.post_id \in referencing
                /\ posts'[r.post_id].author # r.user) => r.status = "not_found"
    ELSE /\ r.view = "blog:index" => past \subseteq r.listing
         /\ (r.view = "blog:category_posts" /\ r.name = c) => past \subseteq r.listing
         /\ r.view = "blog:profile" =>
                {id \in past : posts'[id].author = r.name} \subseteq r.listing
         /\ (r.view = "blog:post_detail" /\ r.post_id \in past) => r.status = "ok"

\* C9: while a category is unpublished every post referencing it is absent
\* from the home feed, the category feed (not-found) and non-owners' profile
\* feeds, and not-found in the detail view for non-owners; the first request
\* after the category is switched follows the new flag: switched off, those
\* posts are excluded; switched back on, the published, past-dated posts of
\* the category are included again.
C9_CategoryGate ==
    [][/\ \A c \in Categories : ~category'[c].is_published => CategoryGate(resp', c)
       /\ resp.view = "admin:category" => CategoryGate(resp', resp.name)]_vars

\* C10: a comment on post P requested by R at time t is stored only if
\* canView(R, P, t); when R cannot view P the outcome is not-found and no
\* comment is stored.
C10_CommentNeedsCanView ==
    [][(/\ resp'.view = "blog:add_comment"
        /\ resp'.valid
        /\ resp'.post_id \in DOMAIN posts
        /\ ~canView(resp'.user, posts[resp'.post_id], clock)) =>
          /\ comments' = comments
          /\ resp'.status = "not_found"]_vars

\* The comment edit or delete request answered by r names a comment id that
\* does not exist, or a post id other than that of the comment's post.
MisaddressedComment(r) ==
    /\ r.view \in CommentMutationViews
    /\ \/ r.comment_id \notin DOMAIN comments
       \/ comments[r.comment_id].post # r.post_id

\* C11: a comment edit or delete request whose path post id differs from the
\* post the comment belongs to, or whose comment id does not exist, is
\* answered not-found for every requester, the comment's author included,
\* and changes nothing; and no step ever changes the post a comment belongs
\* to.
C11_MisaddressedCommentNotFound ==
    [][/\ MisaddressedComment(resp') =>
              resp'.status = "not_found" /\ UNCHANGED db
       /\ \A id \in DOMAIN comments \cap DOMAIN comments' :
              comments'[id].post = comments[id].post]_vars

\* The author of an existing comment has posted an edit of it under the id
\* of another post and has been answered not-found.
C11_Witness ==
    /\ resp.view = "blog:edit_comment"
    /\ resp.method = "POST"
    /\ resp.comment_id \in DOMAIN comments
    /\ comments[resp.comment_id].author = resp.user
    /\ comments[resp.comment_id].post # resp.post_id
    /\ resp.status = "not_found"
====
